---- MODULE Spec2Model ----
(***************************************************************************)
(* The performance dashboard of src/App.jsx: the App component's hook     *)
(* state, its handlers (PIN gate, filter/date/consultant selection, form  *)
(* edits, submit), the store subscription, and the values derived on      *)
(* every render (period, filtered, aggregated, total, ranking).           *)
(*                                                                         *)
(* Dates.  A value of the date input is "" or "YYYY-MM-DD"; it is         *)
(* modelled as <<>> or <<y, m, d>>.  `new Date(text)` reads the text as   *)
(* midnight UTC, while getFullYear/getMonth/getDate read the host's local *)
(* calendar; the host's zone is the parameter tzWest (west of UTC or not).*)
(*                                                                         *)
(* Numbers.  A JS number is modelled as [nan, n]: NaN or the integer n.   *)
(*                                                                         *)
(* Errors.  A ReferenceError thrown by the ranking comparator during a    *)
(* render is the value ranking.threw; an error thrown by submit is kept   *)
(* in outcome.  The handlers are modelled as the source defines them, for *)
(* the controls the source renders in each state, whatever the host does  *)
(* with a view whose render threw.                                         *)
(***************************************************************************)
EXTENDS Integers, Sequences, FiniteSets, TLC

VARIABLES
    db,           \* TRUE iff getFirestore(initializeApp(..)) succeeded (line 23)
    tzWest,       \* TRUE iff the host's time zone is west of UTC
    authorized,   \* useState(false), line 35
    pin,          \* useState(''), line 36
    activePerson, \* useState(CONSULTANTS[0]), line 37
    filterRange,  \* useState('week'), line 38
    date,         \* useState(todayStr()), line 39
    entries,      \* useState([]), line 40
    loading,      \* useState(true), line 41
    form,         \* useState({intakes:0, ...}), line 42
    store,        \* the 'entries' collection, oldest document first
    inflight,     \* submit calls suspended at `await addDoc` (line 106)
    outcome,      \* what the latest call of submit did
    input,        \* argument of a pure computation studied on its own
    output        \* <<>> or <<its result>>

vars == <<db, tzWest, authorized, pin, activePerson, filterRange, date, entries,
          loading, form, store, inflight, outcome, input, output>>

viewVars == <<db, tzWest, authorized, pin, activePerson, filterRange, date,
              entries, loading, form, store, inflight, outcome>>

----------------------------------------------------------------------------
(* Program constants *)

PINCODE == "8448"

CONSULTANTS == <<"Marcus", "Lisanna", "Nick", "Gea", "Dion", "Sander", "Yde">>

Roster == {CONSULTANTS[i] : i \in 1..Len(CONSULTANTS)}

Fields == <<"intakes", "interviews", "placements", "prospects">>

FieldSet == {Fields[i] : i \in 1..Len(Fields)}

FilterOptions == {"week", "month", "year"}

----------------------------------------------------------------------------
(* Calendar arithmetic of Date.UTC / getUTC* (ECMAScript day numbers:     *)
(* day 0 is 1970-01-01, a Thursday)                                        *)

YearRange == 2017..2028

Floor(a, b) == a \div b

DayFromYear(y) ==
    365 * (y - 1970) + Floor(y - 1969, 4) - Floor(y - 1901, 100) + Floor(y - 1601, 400)

InLeapYear(y) == DayFromYear(y + 1) - DayFromYear(y) = 366

\* days before the first of month m (1..13) in year y
MonthStart(y, m) ==
    LET common == <<0, 31, 59, 90, 120, 151, 181, 212, 243, 273, 304, 334, 365>>
    IN  common[m] + (IF InLeapYear(y) /\ m > 2 THEN 1 ELSE 0)

\* Date.UTC(y, m-1, d) / 86400000
DayNumber(y, m, d) == DayFromYear(y) + MonthStart(y, m) + d - 1

\* getUTCFullYear of day number n
YearFromDay(n) == CHOOSE y \in YearRange : DayFromYear(y) <= n /\ n < DayFromYear(y + 1)

\* <<year, month, day>> of day number n
CivilFromDay(n) ==
    LET y   == YearFromDay(n)
        doy == n - DayFromYear(y)
        m   == CHOOSE k \in 1..12 : MonthStart(y, k) <= doy /\ doy < MonthStart(y, k + 1)
    IN  <<y, m, doy - MonthStart(y, m) + 1>>

\* getUTCDay of day number n: 0 is Sunday
WeekDay(n) == (n + 4) % 7

CeilDiv(a, b) == (a + b - 1) \div b

isoWeekWrongSunday(ymd) ==
    LET tmp       == DayNumber(ymd[1], ymd[2], ymd[3])
        day       == WeekDay(tmp)
        thursday  == tmp + 4 - day
        yearStart == DayNumber(YearFromDay(thursday), 1, 1)
    IN  CeilDiv((thursday - yearStart) + 1, 7)

\* isoWeek(d), d a valid Date whose local fields are ymd
isoWeek(ymd) ==
    LET tmp       == DayNumber(ymd[1], ymd[2], ymd[3])
        day       == IF WeekDay(tmp) = 0 THEN 7 ELSE WeekDay(tmp)
        thursday  == tmp + 4 - day
        yearStart == DayNumber(YearFromDay(thursday), 1, 1)
    IN  CeilDiv((thursday - yearStart) + 1, 7)

InvalidDate == <<>>

\* the local <<year, month, day>> of new Date(text) for a well-formed text
LocalFields(text, west) ==
    IF west THEN CivilFromDay(DayNumber(text[1], text[2], text[3]) - 1) ELSE text

\* { week: isoWeek(d), month: d.getMonth()+1, year: d.getFullYear() } of
\* d = new Date(text); every field is NaN when text is ""
Bucket(text, west) ==
    IF text = InvalidDate
    THEN [nan |-> TRUE, week |-> 0, month |-> 0, year |-> 0]
    ELSE LET l == LocalFields(text, west)
         IN  [nan |-> FALSE, week |-> isoWeek(l), month |-> l[2], year |-> l[1]]

----------------------------------------------------------------------------
(* Numbers and form texts.  A text is a sequence of characters.           *)

NaN == [nan |-> TRUE, n |-> 0]

Num(k) == [nan |-> FALSE, n |-> k]

Digits == <<"0", "1", "2", "3", "4", "5", "6", "7", "8", "9">>

IsDigit(c) == \E i \in 1..10 : Digits[i] = c

DigitValue(c) == (CHOOSE i \in 1..10 : Digits[i] = c) - 1

RECURSIVE DigitsValue(_)
DigitsValue(t) ==
    IF t = <<>> THEN 0
    ELSE 10 * DigitsValue(SubSeq(t, 1, Len(t) - 1)) + DigitValue(t[Len(t)])

AllDigits(t) == t # <<>> /\ \A i \in 1..Len(t) : IsDigit(t[i])

\* Number(text) on the texts of the model: "" is 0, a decimal integer is its
\* value, anything else is NaN
ToNumber(t) ==
    IF t = <<>> THEN Num(0)
    ELSE IF AllDigits(t) THEN Num(DigitsValue(t))
    ELSE IF t[1] = "-" /\ AllDigits(Tail(t)) THEN Num(0 - DigitsValue(Tail(t)))
    ELSE NaN

\* x || 0 for a number x: NaN and 0 are falsy
OrZero(x) == IF x.nan \/ x.n = 0 THEN 0 ELSE x.n

\* the value of <input type="number"> after the user typed `typed`: the
\* text itself when it is a number, "" otherwise
FieldValue(typed) == IF ToNumber(typed).nan THEN <<>> ELSE typed

FieldValidNoMin(t) == TRUE

\* constraint validation of <input type="number" min="0">: an empty field
\* is valid (it is not required), a number must be >= 0
FieldValid(t) == t = <<>> \/ (~ToNumber(t).nan /\ ToNumber(t).n >= 0)

ZeroForm == [f \in FieldSet |-> <<"0">>]

----------------------------------------------------------------------------
(* Derived values of a render: filtered, aggregated, total, ranking       *)

RECURSIVE Reverse(_)
Reverse(s) == IF s = <<>> THEN <<>> ELSE Append(Reverse(Tail(s)), Head(s))

MatchesWeekAgainstMonth(e, range, per) ==
    IF range = "week" THEN ~per.nan /\ e.week = per.month /\ e.year = per.year
    ELSE IF range = "month" THEN ~per.nan /\ e.month = per.month /\ e.year = per.year
    ELSE IF range = "year" THEN ~per.nan /\ e.year = per.year
    ELSE TRUE

\* the predicate of entries.filter; `===` with NaN is false
Matches(e, range, per) ==
    IF range = "week" THEN ~per.nan /\ e.week = per.week /\ e.year = per.year
    ELSE IF range = "month" THEN ~per.nan /\ e.month = per.month /\ e.year = per.year
    ELSE IF range = "year" THEN ~per.nan /\ e.year = per.year
    ELSE TRUE

filteredOf(es, range, per) == SelectSeq(es, LAMBDA e : Matches(e, range, per))

ZeroTotals(n) == [name |-> n, intakes |-> 0, interviews |-> 0, placements |-> 0, prospects |-> 0]

\* e.field || 0 for a stored integer
Or0(k) == IF k = 0 THEN 0 ELSE k

\* the index of the record named n in base, 0 when base[n] is undefined
IndexOf(base, n) ==
    IF \E i \in 1..Len(base) : base[i].name = n
    THEN CHOOSE i \in 1..Len(base) : base[i].name = n
    ELSE 0

AddEntryUnknownToo(base, e) ==
    LET known == IF IndexOf(base, e.name) = 0 THEN Append(base, ZeroTotals(e.name)) ELSE base
        i     == IndexOf(known, e.name)
    IN  [known EXCEPT ![i] =
            [name       |-> @.name,
             intakes    |-> @.intakes + Or0(e.intakes),
             interviews |-> @.interviews + Or0(e.interviews),
             placements |-> @.placements + Or0(e.placements),
             prospects  |-> @.prospects + Or0(e.prospects)]]

\* one round of the loop of lines 70-76; base lists the records of the
\* object `base` in insertion order
AddEntry(base, e) ==
    IF IndexOf(base, e.name) = 0 THEN base
    ELSE [base EXCEPT ![IndexOf(base, e.name)] =
            [name       |-> @.name,
             intakes    |-> @.intakes + Or0(e.intakes),
             interviews |-> @.interviews + Or0(e.interviews),
             placements |-> @.placements + Or0(e.placements),
             prospects  |-> @.prospects + Or0(e.prospects)]]

RECURSIVE FoldEntries(_, _)
FoldEntries(base, es) ==
    IF es = <<>> THEN base ELSE FoldEntries(AddEntry(base, Head(es)), Tail(es))

\* Object.values(base) after the loop: the records in insertion order
aggregatedOf(fs) ==
    FoldEntries([i \in 1..Len(CONSULTANTS) |-> ZeroTotals(CONSULTANTS[i])], fs)

RECURSIVE totalOf(_)
totalOf(agg) ==
    IF agg = <<>> THEN [intakes |-> 0, interviews |-> 0, placements |-> 0, prospects |-> 0]
    ELSE LET acc == totalOf(SubSeq(agg, 1, Len(agg) - 1))
             cur == agg[Len(agg)]
         IN  [intakes    |-> acc.intakes + cur.intakes,
              interviews |-> acc.interviews + cur.interviews,
              placements |-> acc.placements + cur.placements,
              prospects  |-> acc.prospects + cur.prospects]

\* the comparator of line 87: the third operand, b.interviews-a-interviews,
\* reads the undeclared identifier `interviews` and throws a ReferenceError
Compare(a, b) ==
    IF b.placements - a.placements # 0 THEN [threw |-> FALSE, v |-> b.placements - a.placements]
    ELSE IF b.intakes - a.intakes # 0 THEN [threw |-> FALSE, v |-> b.intakes - a.intakes]
    ELSE [threw |-> TRUE, v |-> 0]

\* insert x into the sorted list s, comparing from the right; a throwing
\* comparison ends the sort
RECURSIVE Insert(_, _)
Insert(s, x) ==
    IF s = <<>> THEN [threw |-> FALSE, list |-> <<x>>]
    ELSE LET c == Compare(s[Len(s)], x)
         IN  IF c.threw THEN [threw |-> TRUE, list |-> <<>>]
             ELSE IF c.v > 0
             THEN LET r == Insert(SubSeq(s, 1, Len(s) - 1), x)
                  IN  IF r.threw THEN r
                      ELSE [threw |-> FALSE, list |-> Append(r.list, s[Len(s)])]
             ELSE [threw |-> FALSE, list |-> Append(s, x)]

RECURSIVE SortFrom(_, _)
SortFrom(sorted, rest) ==
    IF rest = <<>> THEN [threw |-> FALSE, list |-> sorted]
    ELSE LET r == Insert(sorted, Head(rest))
         IN  IF r.threw THEN r ELSE SortFrom(r.list, Tail(rest))

\* [...aggregated].sort(comparator): the sorted copy, or the comparator's throw
rankingOf(agg) == SortFrom(<<>>, agg)

period == Bucket(date, tzWest)

filtered == filteredOf(entries, filterRange, period)

aggregated == aggregatedOf(filtered)

total == totalOf(aggregated)

ranking == rankingOf(aggregated)

----------------------------------------------------------------------------
(* Bounds and input sets of the view model *)

MaxStore == 1

PinTexts == {"", PINCODE, "0000"}

ClickedPersons == {"Marcus", "Yde"}

DateTexts == {InvalidDate, <<2024, 1, 1>>, <<2024, 12, 30>>}

TypedTexts == {<<>>, <<"2">>, <<"-", "1">>, <<"x">>}

TypedFields == {"placements"}

----------------------------------------------------------------------------
(* The view: state after mounting (first render and the mount effect of   *)
(* lines 44-52), then one action per handler                               *)

PureIdle == input = <<>> /\ output = <<>>

Init ==
    /\ db \in BOOLEAN
    /\ tzWest \in BOOLEAN
    /\ authorized = FALSE
    /\ pin = ""
    /\ activePerson = CONSULTANTS[1]
    /\ filterRange = "week"
    /\ date \in DateTexts \ {InvalidDate}
    /\ entries = <<>>
    /\ loading = db
    /\ form = ZeroForm
    /\ store = <<>>
    /\ inflight = 0
    /\ outcome = "none"
    /\ PureIdle

\* onChange of the access-code input, rendered while locked (line 145)
SetPin(p) ==
    /\ ~authorized
    /\ pin' = p
    /\ UNCHANGED <<db, tzWest, authorized, activePerson, filterRange, date, entries,
                   loading, form, store, inflight, outcome, input, output>>

UnlockAlways ==
    /\ ~authorized
    /\ authorized' = TRUE
    /\ UNCHANGED <<db, tzWest, pin, activePerson, filterRange, date, entries,
                   loading, form, store, inflight, outcome, input, output>>

\* onClick of the Unlock button, rendered while locked (line 146)
Unlock ==
    /\ ~authorized
    /\ authorized' = (pin = PINCODE)
    /\ UNCHANGED <<db, tzWest, pin, activePerson, filterRange, date, entries,
                   loading, form, store, inflight, outcome, input, output>>

\* onClick of a consultant button (line 135)
SetActivePerson(n) ==
    /\ activePerson' = n
    /\ UNCHANGED <<db, tzWest, authorized, pin, filterRange, date, entries,
                   loading, form, store, inflight, outcome, input, output>>

\* onChange of the filter select (line 123)
SetFilterRange(r) ==
    /\ filterRange' = r
    /\ UNCHANGED <<db, tzWest, authorized, pin, activePerson, date, entries,
                   loading, form, store, inflight, outcome, input, output>>

\* onChange of the date input (line 128)
SetDate(t) ==
    /\ date' = t
    /\ UNCHANGED <<db, tzWest, authorized, pin, activePerson, filterRange, entries,
                   loading, form, store, inflight, outcome, input, output>>

\* onChange of a Field, rendered while unlocked (lines 154-157, 230)
SetField(f, typed) ==
    /\ authorized
    /\ form' = [form EXCEPT ![f] = FieldValue(typed)]
    /\ UNCHANGED <<db, tzWest, authorized, pin, activePerson, filterRange, date,
                   entries, loading, store, inflight, outcome, input, output>>

\* onClick of the Reset button (line 161)
ResetForm ==
    /\ authorized
    /\ form' = ZeroForm
    /\ UNCHANGED <<db, tzWest, authorized, pin, activePerson, filterRange, date,
                   entries, loading, store, inflight, outcome, input, output>>

\* the payload of lines 93-105 for the selected consultant, date text and
\* form; createdAt is the document's place in store
PayloadOf(person, text, west, fm) ==
    LET b == Bucket(text, west)
    IN  [name       |-> person,
         date       |-> text,
         week       |-> b.week,
         month      |-> b.month,
         year       |-> b.year,
         intakes    |-> OrZero(ToNumber(fm["intakes"])),
         interviews |-> OrZero(ToNumber(fm["interviews"])),
         placements |-> OrZero(ToNumber(fm["placements"])),
         prospects  |-> OrZero(ToNumber(fm["prospects"]))]

Payload == PayloadOf(activePerson, date, tzWest, form)

\* whether the browser lets the form be submitted: every field is valid
FormValid(fm) == \A f \in FieldSet : FieldValid(fm[f])

SubmitNoStoreCheck ==
    /\ authorized
    /\ FormValid(form)
    /\ date # InvalidDate
    /\ Len(store) < MaxStore
    /\ store' = Append(store, Payload)
    /\ inflight' = inflight + 1
    /\ outcome' = "added"
    /\ UNCHANGED <<db, tzWest, authorized, pin, activePerson, filterRange, date,
                   entries, loading, form, input, output>>

\* submit (lines 89-106, up to the await), called by the submit event of
\* the form, which is rendered while unlocked (line 151) and is submitted
\* only when every field passes its validation (line 230)
Submit ==
    /\ authorized
    /\ FormValid(form)
    /\ (db /\ date # InvalidDate) => Len(store) < MaxStore
    /\ IF ~authorized
       THEN /\ outcome' = "alert: Enter access code first"
            /\ UNCHANGED <<store, inflight>>
       ELSE IF ~db
       THEN /\ outcome' = "alert: Firestore not configured"
            /\ UNCHANGED <<store, inflight>>
       ELSE IF date = InvalidDate
       THEN \* d.toISOString() of an invalid Date (line 96)
            /\ outcome' = "RangeError"
            /\ UNCHANGED <<store, inflight>>
       ELSE /\ store' = Append(store, Payload)
            /\ inflight' = inflight + 1
            /\ outcome' = "added"
    /\ UNCHANGED <<db, tzWest, authorized, pin, activePerson, filterRange, date,
                   entries, loading, form, input, output>>

\* submit resumed after `await addDoc` (lines 107-110); the confetti of
\* line 108 changes no state
AppendDone ==
    /\ inflight > 0
    /\ inflight' = inflight - 1
    /\ form' = ZeroForm
    /\ UNCHANGED <<db, tzWest, authorized, pin, activePerson, filterRange, date,
                   entries, loading, store, outcome, input, output>>

\* the onSnapshot callback (lines 47-50) with the first k documents of the
\* collection, newest first (orderBy createdAt desc)
Snapshot(k) ==
    /\ db
    /\ loading \/ k > Len(entries)
    /\ k >= Len(entries)
    /\ entries' = Reverse(SubSeq(store, 1, k))
    /\ loading' = FALSE
    /\ UNCHANGED <<db, tzWest, authorized, pin, activePerson, filterRange, date,
                   form, store, inflight, outcome, input, output>>

Next ==
    \/ \E p \in PinTexts : SetPin(p)
    \/ Unlock
    \/ \E n \in ClickedPersons : SetActivePerson(n)
    \/ \E r \in FilterOptions : SetFilterRange(r)
    \/ \E t \in DateTexts : SetDate(t)
    \/ \E f \in TypedFields, typed \in TypedTexts : SetField(f, typed)
    \/ ResetForm
    \/ Submit
    \/ AppendDone
    \/ \E k \in 0..Len(store) : Snapshot(k)

Spec == Init /\ [][Next]_vars

----------------------------------------------------------------------------
(* Specifications of the pure computations: Init draws the argument, the  *)
(* action applies the function.  The view does not move.                   *)

ViewIdle ==
    /\ db = FALSE /\ tzWest = FALSE /\ authorized = FALSE /\ pin = ""
    /\ activePerson = CONSULTANTS[1] /\ filterRange = "week"
    /\ date = <<2024, 1, 1>> /\ entries = <<>> /\ loading = FALSE
    /\ form = ZeroForm /\ store = <<>> /\ inflight = 0 /\ outcome = "none"

DaysInMonth(y, m) == MonthStart(y, m + 1) - MonthStart(y, m)

DatesOf(years) ==
    {<<y, m, d>> : y \in years, m \in 1..12, d \in 1..31} \cap
    {ymd \in years \X (1..12) \X (1..31) : ymd[3] <= DaysInMonth(ymd[1], ymd[2])}

(* isoWeek *)

WeekYears == 2019..2026

InitWeek == ViewIdle /\ input \in DatesOf(WeekYears) /\ output = <<>>

ApplyIsoWeek ==
    /\ output = <<>>
    /\ output' = <<isoWeek(input)>>
    /\ UNCHANGED <<viewVars, input>>

SpecWeek == InitWeek /\ [][ApplyIsoWeek]_vars

(* ranking *)

RankFree == 3

RankValues ==
    {[placements |-> p, intakes |-> i, interviews |-> v] :
        p \in {4, 5}, i \in {10, 20}, v \in {0, 1}}

\* totals of the roster: the first RankFree members take any of RankValues,
\* member k of the others has 7 - k placements
RankInputs ==
    {[k \in 1..Len(CONSULTANTS) |->
        IF k <= RankFree
        THEN [name |-> CONSULTANTS[k], intakes |-> f[k].intakes,
              interviews |-> f[k].interviews, placements |-> f[k].placements,
              prospects |-> 0]
        ELSE [name |-> CONSULTANTS[k], intakes |-> 0, interviews |-> 0,
              placements |-> Len(CONSULTANTS) - k, prospects |-> 0]] :
     f \in [1..RankFree -> RankValues]}

InitRank == ViewIdle /\ input \in RankInputs /\ output = <<>>

ApplyRanking ==
    /\ output = <<>>
    /\ output' = <<rankingOf(input)>>
    /\ UNCHANGED <<viewVars, input>>

SpecRank == InitRank /\ [][ApplyRanking]_vars

(* filtered, aggregated, total *)

MaxAggLen == 3

StoredEntry(n, w, m, y, a, b, c, d) ==
    [name |-> n, date |-> <<y, m, 1>>, week |-> w, month |-> m, year |-> y,
     intakes |-> a, interviews |-> b, placements |-> c, prospects |-> d]

AggPool ==
    {StoredEntry("Marcus", 1, 1, 2024, 1, 0, 2, 0),
     StoredEntry("Yde", 1, 1, 2024, 0, 3, 0, 1),
     StoredEntry("Zed", 1, 1, 2024, 5, 6, 7, 8),
     StoredEntry("Marcus", 5, 2, 2024, 4, 1, 1, 1),
     StoredEntry("Zed", 5, 1, 2023, 1, 1, 1, 1),
     StoredEntry("Lisanna", 1, 1, 2023, 2, 2, 0, 0)}

SeqsUpTo(S, n) == UNION {[1..k -> S] : k \in 0..n}

AggPeriods ==
    {[nan |-> FALSE, week |-> 1, month |-> 1, year |-> 2024],
     [nan |-> FALSE, week |-> 5, month |-> 1, year |-> 2023],
     [nan |-> TRUE, week |-> 0, month |-> 0, year |-> 0]}

InitAgg ==
    /\ ViewIdle
    /\ input \in [es : SeqsUpTo(AggPool, MaxAggLen),
                  range : FilterOptions \cup {"all"},
                  per : AggPeriods]
    /\ output = <<>>

ApplyAggregate ==
    /\ output = <<>>
    /\ LET agg == aggregatedOf(filteredOf(input.es, input.range, input.per))
       IN  output' = <<[aggregated |-> agg, total |-> totalOf(agg)]>>
    /\ UNCHANGED <<viewVars, input>>

SpecAgg == InitAgg /\ [][ApplyAggregate]_vars

(* the week filter on entries written by submit *)

BoundaryDates ==
    {<<y, m, d>> : y \in WeekYears, m \in {12}, d \in {29, 30, 31}} \cup
    {<<y, m, d>> : y \in WeekYears, m \in {1}, d \in {1, 2, 3}} \cup
    {<<y, m, d>> : y \in {2024}, m \in {6}, d \in {9, 10, 16}}

InitBucket ==
    /\ ViewIdle
    /\ input \in [west : BOOLEAN, ref : BoundaryDates, day : BoundaryDates]
    /\ output = <<>>

\* an entry submitted with `day` selected, then shown with `ref` selected
ApplyWeekFilter ==
    /\ output = <<>>
    /\ LET e == PayloadOf(CONSULTANTS[1], input.day, input.west, ZeroForm)
       IN  output' = <<filteredOf(<<e>>, "week", Bucket(input.ref, input.west))>>
    /\ UNCHANGED <<viewVars, input>>

SpecBucket == InitBucket /\ [][ApplyWeekFilter]_vars

----------------------------------------------------------------------------
(* Reference notions the properties are stated with                       *)

\* weekday of 31 December of year y, 0 = Sunday
Dec31(y) == (y + (y \div 4) - (y \div 100) + (y \div 400)) % 7

WeeksInYear(y) == 52 + (IF Dec31(y) = 4 \/ Dec31(y - 1) = 3 THEN 1 ELSE 0)

\* ISO-8601 week number of a calendar date, from its ordinal day and weekday
RefIsoWeek(ymd) ==
    LET y   == ymd[1]
        doy == MonthStart(y, ymd[2]) + ymd[3]
        wd0 == (Dec31(y - 1) + doy) % 7
        wd  == IF wd0 = 0 THEN 7 ELSE wd0
        w   == (doy - wd + 10) \div 7
    IN  IF w < 1 THEN WeeksInYear(y - 1)
        ELSE IF w > WeeksInYear(y) THEN 1
        ELSE w

\* day number of the Monday that starts the week of a calendar date
MondayOf(ymd) ==
    LET n == DayNumber(ymd[1], ymd[2], ymd[3]) IN n - ((n + 3) % 7)

RECURSIVE SumField(_, _)
SumField(es, f) == IF es = <<>> THEN 0 ELSE Head(es)[f] + SumField(Tail(es), f)

\* a before b, or level with it, by placements, then intakes, then interviews
RankedNotAfter(a, b) ==
    \/ a.placements > b.placements
    \/ /\ a.placements = b.placements
       /\ \/ a.intakes > b.intakes
          \/ a.intakes = b.intakes /\ a.interviews >= b.interviews

----------------------------------------------------------------------------
(* Properties *)

\* C1: the ranking of the per-member totals is a permutation of the seven
\* roster records ordered by placements, then intakes, then interviews, all
\* descending, for every combination of totals, ties on placements and
\* intakes included.
C1_RankingOrdered ==
    output # <<>> =>
        LET r == output[1]
        IN  /\ ~r.threw
            /\ Len(r.list) = Len(CONSULTANTS)
            /\ \A k \in 1..Len(input) : \E i \in 1..Len(r.list) : r.list[i] = input[k]
            /\ \A i, j \in 1..Len(r.list) : i < j => RankedNotAfter(r.list[i], r.list[j])

\* C2: in every reachable state, recomputing the derived values and
\* handling a submit raises no unhandled error.
C2_NoUnhandledError == ~ranking.threw /\ outcome # "RangeError"

\* C3: the gate starts Locked; Unlock opens it exactly when the entered PIN
\* equals the fixed PIN; once Unlocked it never returns to Locked.
C3_Gate ==
    /\ ~authorized
    /\ [][/\ authorized => authorized'
          /\ (~authorized /\ authorized') => (pin = PINCODE /\ UNCHANGED pin)
          /\ (~authorized /\ pin # PINCODE /\ UNCHANGED pin) => ~authorized']_vars
    /\ []((~authorized /\ pin = PINCODE) => ENABLED (Unlock /\ authorized'))

C3_Witness == authorized /\ outcome = "added" /\ entries # <<>> /\ inflight = 0

C5_EverySubmitAppends ==
    /\ (authorized /\ db /\ outcome # "none") => outcome = "added"
    /\ \A i \in 1..Len(store) :
          /\ store[i].week = RefIsoWeek(store[i].date)
          /\ store[i].month = store[i].date[2]
          /\ store[i].year = store[i].date[1]

C7_IsoWeek ==
    output # <<>> =>
        /\ output[1] = RefIsoWeek(input)
        /\ output[1] \in 1..53
        /\ input = <<2023, 1, 1>> => output[1] = 52
        /\ input = <<2024, 1, 1>> => output[1] = 1
        /\ input = <<2021, 1, 4>> => output[1] = 1

C7_Witness == input = <<2023, 1, 1>> /\ output = <<52>>

\* C8: for every entry collection, filter mode and reference bucket the
\* aggregated output has one record per roster member in roster order, and
\* an entry named outside the roster is in no record and adds nothing to a
\* member's totals or to the grand total.
C8_RosterOnly ==
    output # <<>> =>
        LET agg   == output[1].aggregated
            sel   == filteredOf(input.es, input.range, input.per)
            known == SelectSeq(sel, LAMBDA e : e.name \in Roster)
        IN  /\ Len(agg) = Len(CONSULTANTS)
            /\ \A i \in 1..Len(agg) :
                  /\ agg[i].name = CONSULTANTS[i]
                  /\ \A f \in FieldSet :
                        agg[i][f] = SumField(SelectSeq(sel, LAMBDA e : e.name = CONSULTANTS[i]), f)
            /\ \A f \in FieldSet : output[1].total[f] = SumField(known, f)

C8_Witness ==
    /\ output # <<>>
    /\ input.range = "week"
    /\ Len(input.es) = 3
    /\ input.es[1].name = "Zed" /\ Matches(input.es[1], input.range, input.per)
    /\ input.es[2].name = "Yde" /\ Matches(input.es[2], input.range, input.per)
    /\ input.es[3].name = "Marcus" /\ Matches(input.es[3], input.range, input.per)
    /\ output[1].total.placements = 2

C10_WeekFilterIsIsoWeek ==
    output # <<>> => ((output[1] # <<>>) <=> (MondayOf(input.day) = MondayOf(input.ref)))

====
